---- MODULE Spec2Model ----
(***************************************************************************)
(* Model of torch/distributed/rpc/internal.py: the RPC pickler             *)
(* (_InternalRPCPickler.serialize / deserialize with its thread-local      *)
(* tensor tables), the UDF runner _run_function, _handle_exception and the *)
(* profiling-key builders.                                                 *)
(*                                                                         *)
(* A value handed to serialize() is a sequence of items, one per node the  *)
(* pickler visits in order; every item occurrence is a distinct instance.  *)
(* A byte stream is the sequence of tokens the pickler wrote.  Strings     *)
(* that matter character by character are sequences of one-character       *)
(* strings.                                                                *)
(***************************************************************************)
EXTENDS Integers, Sequences, FiniteSets, TLC

VARIABLES
    tls,      \* _thread_local_tensor_tables: per thread, the send_tables and recv_tables slots
    stack,    \* per thread, the live serialize()/deserialize() calls, outermost first
    pc,       \* per thread, where the thread is in its encode -> decode leg
    rets,     \* per thread, the calls that have exited, in exit order (history)
    stderr,   \* what was printed to sys.stderr, in order
    udf,      \* the argument handed to _run_function
    outcome,  \* what _run_function / _handle_exception did with it
    profile   \* the last profiling-key call: its arguments and what it produced

vars == <<tls, stack, pc, rets, stderr, udf, outcome, profile>>

(***************************************************************************)
(* Bounds                                                                  *)
(***************************************************************************)
MaxLen    == 3      \* longest value handed to a top-level serialize()
MaxStream == 2      \* longest byte stream handed to deserialize() from outside

Threads    == {"t1", "t2"}
MainThread == "t1"

(***************************************************************************)
(* Sequences helpers                                                       *)
(***************************************************************************)
SeqsUpTo(S, n) == UNION {[1..k -> S] : k \in 0..n}

Range(s) == {s[i] : i \in 1..Len(s)}

Last(s) == s[Len(s)]

Front(s) == SubSeq(s, 1, Len(s) - 1)

(***************************************************************************)
(* A thread-local slot: the attribute is absent, or holds a list.          *)
(***************************************************************************)
Absent == [has |-> FALSE, tbl |-> <<>>]

Present(l) == [has |-> TRUE, tbl |-> l]

(***************************************************************************)
(* Outcome of a call that may raise                                        *)
(***************************************************************************)
Ok(v) == [exc |-> "", value |-> v]

Raise(kind, msg) == [exc |-> kind, value |-> msg]

(***************************************************************************)
(* Values and tokens                                                       *)
(***************************************************************************)
Item(cat, p) == [cat |-> cat, p |-> p]

Token(op, recv, arg) == [op |-> op, recv |-> recv, arg |-> arg]

\* attribute values of a RemoteModule carry their runtime type
Val(ty, v) == [ty |-> ty, v |-> v]

(***************************************************************************)
(* External collaborators: RRef fork/reconstruct, torch.jit save/load.     *)
(* They are inverse pairs; both can fail.                                  *)
(***************************************************************************)
BadRRef == "r_bad"      \* an RRef whose _serialize() raises

PyRRef_serialize(rref) ==
    IF rref = BadRRef THEN Raise("RuntimeError", <<"fork failed">>)
    ELSE Ok(Val("fork", rref))

PyRRef_deserialize(rref_fork_data) ==
    IF rref_fork_data.ty # "fork" THEN Raise("TypeError", <<"bad fork data">>)
    ELSE IF rref_fork_data.v = BadRRef THEN Raise("RuntimeError", <<"reconstruct failed">>)
    ELSE Ok(rref_fork_data.v)

jit_save(module) == Val("blob", module)

jit_load(f) ==
    IF f.ty # "blob" THEN Raise("RuntimeError", <<"bad blob">>)
    ELSE Ok(f.v)

(***************************************************************************)
(* dist.nn lists consulted by the RemoteModule reducer                     *)
(***************************************************************************)
REMOTE_MODULE_PICKLED_ATTRIBUTES ==
    {"on", "device", "is_device_map_set", "is_scriptable", "generated_methods"}

REMOTE_MODULE_ATTRIBUTES_IGNORE_FOR_PICKLING == {"training", "forward"}

(***************************************************************************)
(* Special-type reducers (encode side).  Each yields Ok(token) or raises.  *)
(***************************************************************************)
\* list[index] with Python's wrap-around of negative indices
PyIndex(list, index) ==
    IF index >= 0 /\ index < Len(list) THEN Ok(list[index + 1])
    ELSE IF index < 0 /\ index >= -Len(list) THEN Ok(list[Len(list) + index + 1])
    ELSE Raise("IndexError", <<"list index out of range">>)

\* variant: the index is taken to be the length of the table after the append
tensor_reducer_length(send_tables, tensor) ==
    LET appended     == Append(send_tables.tbl, tensor)
        tensor_index == Len(appended)
    IN  [send_tables |-> [send_tables EXCEPT !.tbl = appended],
         value       |-> Token("reduce", "tensor_receiver", tensor_index)]

\* appends to the thread's send_tables; yields the new table and the token
tensor_reducer(send_tables, tensor) ==
    LET appended     == Append(send_tables.tbl, tensor)
        tensor_index == Len(appended) - 1
    IN  [send_tables |-> [send_tables EXCEPT !.tbl = appended],
         value       |-> Token("reduce", "tensor_receiver", tensor_index)]

py_rref_reducer(py_rref) ==
    LET rref_fork_data == PyRRef_serialize(py_rref)
    IN  IF rref_fork_data.exc # "" THEN rref_fork_data
        ELSE Ok(Token("reduce", "py_rref_receiver", rref_fork_data.value))

rref_reducer(rref) == py_rref_reducer(rref)

script_module_reducer(script_module) ==
    Ok(Token("reduce", "script_module_receiver", jit_save(script_module)))

recursive_script_module_reducer(recursive_script_module) ==
    Ok(Token("reduce", "recursive_script_module_receiver",
             jit_save(recursive_script_module)))

\* the loop over remote_module.__dict__.items(): pickled_attrs as the
\* sequence of its values in insertion order (the keys of __dict__ are unique)
RECURSIVE pickled_attrs_values(_)
pickled_attrs_values(dict) ==
    IF dict = <<>> THEN Ok(<<>>)
    ELSE LET k    == dict[1][1]
             v    == dict[1][2]
             rest == pickled_attrs_values(Tail(dict))
         IN  IF k = "module_rref"
             THEN LET fork == IF v.ty = "rref" THEN PyRRef_serialize(v.v)
                              ELSE Raise("AttributeError", <<"no _serialize">>)
                  IN  IF fork.exc # "" THEN fork
                      ELSE IF rest.exc # "" THEN rest
                      ELSE Ok(<<fork.value>> \o rest.value)
             ELSE IF rest.exc # "" THEN rest
             ELSE IF k \in REMOTE_MODULE_PICKLED_ATTRIBUTES
             THEN Ok(<<v>> \o rest.value)
             ELSE rest

ignored_attr_message(k) ==
    <<"The new attribute ", k, " of RemoteModule is ignored during RPC pickling.">>

\* variant: every attribute that is not pickled is reported
RECURSIVE ignored_attr_messages_unfiltered(_)
ignored_attr_messages_unfiltered(dict) ==
    IF dict = <<>> THEN <<>>
    ELSE LET k == dict[1][1]
             v == dict[1][2]
         IN  IF k = "module_rref"
             THEN IF v.ty = "rref" /\ PyRRef_serialize(v.v).exc = ""
                  THEN ignored_attr_messages_unfiltered(Tail(dict))
                  ELSE <<>>
             ELSE IF k \in REMOTE_MODULE_PICKLED_ATTRIBUTES
             THEN ignored_attr_messages_unfiltered(Tail(dict))
             ELSE << ignored_attr_message(k) >> \o ignored_attr_messages_unfiltered(Tail(dict))

\* the messages the loop prints, one per attribute in neither list, up to
\* the attribute (if any) at which the loop raises
RECURSIVE ignored_attr_messages(_)
ignored_attr_messages(dict) ==
    IF dict = <<>> THEN <<>>
    ELSE LET k == dict[1][1]
             v == dict[1][2]
         IN  IF k = "module_rref"
             THEN IF v.ty = "rref" /\ PyRRef_serialize(v.v).exc = ""
                  THEN ignored_attr_messages(Tail(dict))
                  ELSE <<>>
             ELSE IF k \in REMOTE_MODULE_PICKLED_ATTRIBUTES
             THEN ignored_attr_messages(Tail(dict))
             ELSE IF k \notin REMOTE_MODULE_ATTRIBUTES_IGNORE_FOR_PICKLING
             THEN << ignored_attr_message(k) >> \o ignored_attr_messages(Tail(dict))
             ELSE ignored_attr_messages(Tail(dict))

remote_module_reducer(remote_module) ==
    LET values == pickled_attrs_values(remote_module)
    IN  IF values.exc # "" THEN values
        ELSE Ok(Token("reduce", "remote_module_receiver", values.value))

(***************************************************************************)
(* Special-type receivers (decode side)                                    *)
(***************************************************************************)
\* variant: the index is taken to count from 1
tensor_receiver_from_one(recv_tables, tensor_index) ==
    LET got == PyIndex(recv_tables.tbl, tensor_index - 1)
    IN  IF ~recv_tables.has THEN Raise("AttributeError", <<"no attribute recv_tables">>)
        ELSE IF got.exc # "" THEN got
        ELSE Ok(Item("tensor", got.value))

\* line 49: recv_tables[tensor_index] of the thread's slot
tensor_receiver(recv_tables, tensor_index) ==
    LET got == PyIndex(recv_tables.tbl, tensor_index)
    IN  IF ~recv_tables.has THEN Raise("AttributeError", <<"no attribute recv_tables">>)
        ELSE IF got.exc # "" THEN got
        ELSE Ok(Item("tensor", got.value))

py_rref_receiver(rref_fork_data) ==
    LET rref == PyRRef_deserialize(rref_fork_data)
    IN  IF rref.exc # "" THEN rref ELSE Ok(Item("rref", rref.value))

script_module_receiver(script_module_serialized) ==
    LET m == jit_load(script_module_serialized)
    IN  IF m.exc # "" THEN m ELSE Ok(Item("script", m.value))

\* the body reads the name script_module_serialized, which is neither a
\* parameter nor a global of this function
recursive_script_module_receiver(recursive_script_module_serialized) ==
    Raise("NameError", <<"name script_module_serialized is not defined">>)

\* installing the generated methods: iterating generated_methods and
\* reading __name__ of each element
install_methods(generated_methods) ==
    IF generated_methods.ty = "methods"
    THEN Ok([i \in 1..Len(generated_methods.v) |->
                <<generated_methods.v[i], Val("method", generated_methods.v[i])>>])
    ELSE IF generated_methods.ty \in {"str", "strs"}
    THEN Raise("AttributeError", <<"str object has no attribute __name__">>)
    ELSE Raise("TypeError", <<"object is not iterable">>)

remote_module_receiver(args) ==
    IF Len(args) # 6
    THEN Raise("TypeError", <<"wrong number of positional arguments">>)
    ELSE LET module_rref == PyRRef_deserialize(args[6])
             methods     == install_methods(args[5])
         IN  IF module_rref.exc # "" THEN module_rref
             ELSE IF methods.exc # "" THEN methods
             ELSE Ok(Item("remote_module",
                          << <<"on", args[1]>>,
                             <<"device", args[2]>>,
                             <<"is_device_map_set", args[3]>>,
                             <<"is_scriptable", args[4]>>,
                             <<"generated_methods", args[5]>>,
                             <<"module_rref", Val("rref", module_rref.value)>> >>
                          \o methods.value))

(***************************************************************************)
(* The pickler: one node of the traversal.  p.dump dispatches on the       *)
(* node's type through dispatch_table; plain data and references to        *)
(* module-level functions have a structural encoding; a node with neither  *)
(* makes dump raise.                                                       *)
(***************************************************************************)
dump_node(send_tables, node) ==
    LET same(r) == [exc |-> r.exc, value |-> r.value, send_tables |-> send_tables,
                    diag |-> <<>>]
    IN  CASE node.cat = "plain"  -> same(Ok(Token("plain", "", node.p)))
          [] node.cat = "func"   -> same(Ok(Token("global", "", node.p)))
          [] node.cat = "tensor" ->
                LET r == tensor_reducer(send_tables, node.p)
                IN  [exc |-> "", value |-> r.value, send_tables |-> r.send_tables,
                     diag |-> <<>>]
          [] node.cat = "rref"    -> same(rref_reducer(node.p))
          [] node.cat = "script"  -> same(script_module_reducer(node.p))
          [] node.cat = "rscript" -> same(recursive_script_module_reducer(node.p))
          [] node.cat = "remote_module" ->
                [same(remote_module_reducer(node.p))
                    EXCEPT !.diag = ignored_attr_messages(node.p)]
          [] node.cat = "RemoteException" ->
                same(Ok(Token("reduce", "RemoteException", node.p)))
          [] OTHER -> same(Raise("TypeError", <<"cannot pickle">>))

(***************************************************************************)
(* The unpickler: one token of the stream.  A global token is resolved by  *)
(* name on the receiving side; a reduce token calls its receiver.          *)
(***************************************************************************)
ReceiverSymbols == {"f"}    \* the functions defined on the receiving side

load_token(recv_tables, token) ==
    CASE token.op = "plain" -> Ok(Item("plain", token.arg))
      [] token.op = "global" ->
            IF token.arg \in ReceiverSymbols THEN Ok(Item("func", token.arg))
            ELSE Raise("AttributeError", <<"Can't get attribute ", token.arg>>)
      [] token.recv = "tensor_receiver" -> tensor_receiver(recv_tables, token.arg)
      [] token.recv = "py_rref_receiver" -> py_rref_receiver(token.arg)
      [] token.recv = "script_module_receiver" -> script_module_receiver(token.arg)
      [] token.recv = "recursive_script_module_receiver" ->
            recursive_script_module_receiver(token.arg)
      [] token.recv = "remote_module_receiver" -> remote_module_receiver(token.arg)
      [] token.recv = "RemoteException" -> Ok(Item("RemoteException", token.arg))
      [] OTHER -> Raise("UnpicklingError", <<"invalid load key">>)

(***************************************************************************)
(* serialize() and deserialize(): the save / restore of the thread-local   *)
(* slot around the traversal.                                              *)
(***************************************************************************)
\* lines 187-190: the list the slot holds, or None (Absent) when unset
save_send_tables(send_tables) == IF send_tables.has THEN send_tables ELSE Absent

\* variant: the attribute is deleted whether or not a list was saved
restore_send_tables_delete(old_send_tables) == Absent

\* lines 198-201: put the saved list back, or delete the attribute
restore_send_tables(old_send_tables) ==
    IF old_send_tables.has THEN old_send_tables ELSE Absent

save_recv_tables(recv_tables) == IF recv_tables.has THEN recv_tables ELSE Absent

restore_recv_tables(old_recv_tables) ==
    IF old_recv_tables.has THEN old_recv_tables ELSE Absent

\* variant: a list is installed only when the attribute is unset
new_send_tables_if_unset(send_tables) ==
    IF send_tables.has THEN send_tables ELSE Present(<<>>)

\* line 191: a new empty list, whatever the slot held
new_send_tables(send_tables) == Present(<<>>)

\* line 215: the caller's table, whatever the slot held
new_recv_tables(recv_tables, tensor_table) == Present(tensor_table)

SerFrame(obj, send_tables) ==
    [op |-> "serialize", input |-> obj, todo |-> obj, f |-> <<>>,
     old_send_tables |-> save_send_tables(send_tables), pre |-> send_tables]

DesFrame(binary_data, tensor_table, recv_tables) ==
    [op |-> "deserialize",
     input |-> [binary_data |-> binary_data, tensor_table |-> tensor_table],
     todo |-> binary_data, ret |-> <<>>,
     old_recv_tables |-> save_recv_tables(recv_tables), pre |-> recv_tables]

BACKSLASH == "\\"

NEWLINE == "\n"

\* the literal of lines 225-227, line breaks included
HINT ==
    <<" Default RPC pickler does not serialize", NEWLINE,
      "            function code. Ensure that UDFs are defined on both caller and", NEWLINE,
      "            callee modules.">>

\* variant: the AttributeError is rebuilt from str(e) alone
deserialize_failure_bare(e) == << Item("AttributeError", e.value) >>

\* lines 223-229: the AttributeError instance deserialize() returns
deserialize_failure(e) == << Item("AttributeError", e.value \o HINT) >>

\* a call that has exited: which call, how it exited, and the slot before and after
CallRec(frame, depth, how, value, post) ==
    [op |-> frame.op, depth |-> depth, input |-> frame.input, how |-> how,
     value |-> value, pre |-> frame.pre, post |-> post]

\* the records of the frames an escaping exception unwinds, innermost first;
\* no frame on the way restores its slot
RECURSIVE Unwound(_, _, _)
Unwound(frames, exc, post) ==
    IF frames = <<>> THEN <<>>
    ELSE <<CallRec(Last(frames), Len(frames), "raised", exc, post)>>
            \o Unwound(Front(frames), exc, post)

Top(t) == Last(stack[t])

\* variant: a plain module-level object, one set of attributes for all threads
local_global(t) == MainThread

\* _thread_local_tensor_tables is a threading.local(): each thread sees the
\* attributes it set itself
local(t) == t

(***************************************************************************)
(* serialize(obj), step by step on thread t                                *)
(***************************************************************************)
\* entry of serialize(): save the slot, install a fresh list (lines 185-191)
serialize_enter(t, obj) ==
    /\ stack' = [stack EXCEPT ![t] = Append(@, SerFrame(obj, tls[local(t)].send_tables))]
    /\ tls' = [tls EXCEPT ![local(t)].send_tables = new_send_tables(@)]

\* a top-level call of serialize(obj), obj any of objs
SerializeCall(t, objs) ==
    /\ pc[t] = "idle"
    /\ \E obj \in objs : serialize_enter(t, obj)
    /\ pc' = [pc EXCEPT ![t] = "serialize"]
    /\ UNCHANGED <<rets, stderr, udf, outcome, profile>>

\* p.dump visits the next node and its reducer returns
Pickle(t) ==
    /\ stack[t] # <<>> /\ Top(t).op = "serialize" /\ Top(t).todo # <<>>
    /\ Head(Top(t).todo).cat # "nested"
    /\ LET r == dump_node(tls[local(t)].send_tables, Head(Top(t).todo))
       IN  /\ r.exc = ""
           /\ stack' = [stack EXCEPT ![t][Len(stack[t])] =
                            [@ EXCEPT !.todo = Tail(@), !.f = Append(@, r.value)]]
           /\ tls' = [tls EXCEPT ![local(t)].send_tables = r.send_tables]
           /\ stderr' = stderr \o r.diag
    /\ UNCHANGED <<pc, rets, udf, outcome, profile>>

\* p.dump visits a node whose handler runs a full serialize() of its own
NestedSerialize(t) ==
    /\ stack[t] # <<>> /\ Top(t).op = "serialize" /\ Top(t).todo # <<>>
    /\ Head(Top(t).todo).cat = "nested"
    /\ serialize_enter(t, Head(Top(t).todo).p)
    /\ UNCHANGED <<pc, rets, stderr, udf, outcome, profile>>

\* p.dump raises: the exception leaves every live serialize() of the thread
\* at line 193, before the restore of lines 195-201
SerializeRaise(t) ==
    /\ stack[t] # <<>> /\ Top(t).op = "serialize" /\ Top(t).todo # <<>>
    /\ Head(Top(t).todo).cat # "nested"
    /\ LET r == dump_node(tls[local(t)].send_tables, Head(Top(t).todo))
       IN  /\ r.exc # ""
           /\ rets' = [rets EXCEPT ![t] = @ \o Unwound(stack[t], r.exc, tls[local(t)].send_tables)]
           /\ stderr' = stderr \o r.diag
    /\ stack' = [stack EXCEPT ![t] = <<>>]
    /\ pc' = [pc EXCEPT ![t] = "raised"]
    /\ UNCHANGED <<tls, udf, outcome, profile>>

\* p.dump returned: lines 195-203
SerializeReturn(t) ==
    /\ stack[t] # <<>> /\ Top(t).op = "serialize" /\ Top(t).todo = <<>>
    /\ LET tensors == tls[local(t)].send_tables.tbl
           result  == [binary_data |-> Top(t).f, tensor_table |-> tensors]
           depth   == Len(stack[t])
           post    == restore_send_tables(Top(t).old_send_tables)
       IN  /\ tls' = [tls EXCEPT ![local(t)].send_tables = post]
           /\ rets' = [rets EXCEPT ![t] =
                          Append(@, CallRec(Top(t), depth, "returned", result, post))]
           /\ IF depth = 1
              THEN /\ stack' = [stack EXCEPT ![t] = <<>>]
                   /\ pc' = [pc EXCEPT ![t] = "serialized"]
              ELSE \* back in the handler of the enclosing p.dump, which emits
                   \* its token around the inner result
                   /\ stack' = [stack EXCEPT ![t] =
                        [Front(@) EXCEPT ![depth - 1] =
                            [@ EXCEPT !.todo = Tail(@),
                                      !.f = Append(@, Token("reduce", "nested_receiver", result))]]]
                   /\ pc' = pc
    /\ UNCHANGED <<stderr, udf, outcome, profile>>

(***************************************************************************)
(* deserialize(binary_data, tensor_table), step by step on thread t        *)
(***************************************************************************)
\* entry of deserialize(): save the slot, install the caller's table (209-215)
deserialize_enter(t, binary_data, tensor_table) ==
    /\ stack' = [stack EXCEPT ![t] =
                    Append(@, DesFrame(binary_data, tensor_table, tls[local(t)].recv_tables))]
    /\ tls' = [tls EXCEPT ![local(t)].recv_tables = new_recv_tables(@, tensor_table)]

\* a top-level call on a payload received from a peer
DeserializeCall(t, streams, tables) ==
    /\ pc[t] = "idle"
    /\ \E binary_data \in streams, tensor_table \in tables :
            deserialize_enter(t, binary_data, tensor_table)
    /\ pc' = [pc EXCEPT ![t] = "deserialize"]
    /\ UNCHANGED <<rets, stderr, udf, outcome, profile>>

\* a top-level call on the payload the thread's own serialize() returned
DeserializeOwn(t) ==
    /\ pc[t] = "serialized"
    /\ deserialize_enter(t, Last(rets[t]).value.binary_data, Last(rets[t]).value.tensor_table)
    /\ pc' = [pc EXCEPT ![t] = "deserialize"]
    /\ UNCHANGED <<rets, stderr, udf, outcome, profile>>

\* the frame left when deserialize() at the top of the stack returns ret
deserialize_exit(t, ret) ==
    LET depth == Len(stack[t])
        post  == restore_recv_tables(Top(t).old_recv_tables)
    IN  /\ tls' = [tls EXCEPT ![local(t)].recv_tables = post]
        /\ rets' = [rets EXCEPT ![t] =
                       Append(@, CallRec(Top(t), depth, "returned", ret, post))]
        /\ IF depth = 1
           THEN /\ stack' = [stack EXCEPT ![t] = <<>>]
                /\ pc' = [pc EXCEPT ![t] = "done"]
           ELSE /\ stack' = [stack EXCEPT ![t] =
                     [Front(@) EXCEPT ![depth - 1] =
                         [@ EXCEPT !.todo = Tail(@),
                                   !.ret = Append(@, Item("nested", ret))]]]
                /\ pc' = pc

\* unpickler.load reads the next token and its receiver returns
Unpickle(t) ==
    /\ stack[t] # <<>> /\ Top(t).op = "deserialize" /\ Top(t).todo # <<>>
    /\ Head(Top(t).todo).recv # "nested_receiver"
    /\ LET r == load_token(tls[local(t)].recv_tables, Head(Top(t).todo))
       IN  /\ r.exc = ""
           /\ stack' = [stack EXCEPT ![t][Len(stack[t])] =
                            [@ EXCEPT !.todo = Tail(@), !.ret = Append(@, r.value)]]
    /\ UNCHANGED <<tls, pc, rets, stderr, udf, outcome, profile>>

\* unpickler.load reads a token whose receiver runs a full deserialize()
NestedDeserialize(t) ==
    /\ stack[t] # <<>> /\ Top(t).op = "deserialize" /\ Top(t).todo # <<>>
    /\ Head(Top(t).todo).recv = "nested_receiver"
    /\ deserialize_enter(t, Head(Top(t).todo).arg.binary_data,
                            Head(Top(t).todo).arg.tensor_table)
    /\ UNCHANGED <<pc, rets, stderr, udf, outcome, profile>>

\* unpickler.load raises AttributeError: lines 220-238
DeserializeAttributeError(t) ==
    /\ stack[t] # <<>> /\ Top(t).op = "deserialize" /\ Top(t).todo # <<>>
    /\ Head(Top(t).todo).recv # "nested_receiver"
    /\ LET r == load_token(tls[local(t)].recv_tables, Head(Top(t).todo))
       IN  /\ r.exc = "AttributeError"
           /\ deserialize_exit(t, deserialize_failure(r))
    /\ UNCHANGED <<stderr, udf, outcome, profile>>

\* unpickler.load raises anything else: the exception leaves every live
\* deserialize() of the thread at line 219, before the restore of 231-236
DeserializeRaise(t) ==
    /\ stack[t] # <<>> /\ Top(t).op = "deserialize" /\ Top(t).todo # <<>>
    /\ Head(Top(t).todo).recv # "nested_receiver"
    /\ LET r == load_token(tls[local(t)].recv_tables, Head(Top(t).todo))
       IN  /\ r.exc \notin {"", "AttributeError"}
           /\ rets' = [rets EXCEPT ![t] = @ \o Unwound(stack[t], r.exc, tls[local(t)].recv_tables)]
    /\ stack' = [stack EXCEPT ![t] = <<>>]
    /\ pc' = [pc EXCEPT ![t] = "raised"]
    /\ UNCHANGED <<tls, stderr, udf, outcome, profile>>

\* unpickler.load returned: lines 231-238
DeserializeReturn(t) ==
    /\ stack[t] # <<>> /\ Top(t).op = "deserialize" /\ Top(t).todo = <<>>
    /\ deserialize_exit(t, Top(t).ret)
    /\ UNCHANGED <<stderr, udf, outcome, profile>>

(***************************************************************************)
(* Text.  A text is a sequence of pieces; the characters of a user message *)
(* are one piece each, fixed text is one piece as a whole.                 *)
(***************************************************************************)
\* needle occurs in text as a contiguous run
Contains(text, needle) ==
    \E i \in 0..(Len(text) - Len(needle)) :
        \A j \in 1..Len(needle) : text[i + j] = needle[j]

\* the escaping repr() applies to the characters of a string
RECURSIVE repr_escape(_)
repr_escape(m) ==
    IF m = <<>> THEN <<>>
    ELSE (CASE m[1] = BACKSLASH -> <<BACKSLASH, BACKSLASH>>
            [] m[1] = NEWLINE   -> <<BACKSLASH, "n">>
            [] OTHER            -> <<m[1]>>) \o repr_escape(Tail(m))

\* an exception instance: its class and its single argument
Exc(kind, msg) == [kind |-> kind, msg |-> msg]

\* str(e) and repr(e) of an exception built from one textual argument
str_exc(e) == e.msg

repr_exc(e) == <<e.kind, "(", "'">> \o repr_escape(e.msg) \o <<"'", ")">>

\* traceback.format_exc() while handling e
format_exc(e) ==
    <<"Traceback (most recent call last):", NEWLINE,
      "  File internal.py, in _run_function", NEWLINE, e.kind>>
    \o (IF str_exc(e) = <<>> THEN <<>> ELSE <<": ">> \o str_exc(e))
    \o <<NEWLINE>>

\* str.encode("utf-8") followed by bytes.decode("unicode_escape"): every
\* byte is read as Latin-1, and backslash escapes are interpreted
Latin1(c) == IF c = "é" THEN <<"Ã", "©">> ELSE <<c>>

\* the decoder reads s left to right; out is what it has produced so far
RECURSIVE unicode_escape_from(_, _)
unicode_escape_from(s, out) ==
    IF s = <<>> THEN Ok(out)
    ELSE IF s[1] # BACKSLASH
    THEN unicode_escape_from(Tail(s), out \o Latin1(s[1]))
    ELSE IF Len(s) = 1
    THEN Raise("UnicodeDecodeError", <<"\\ at end of string">>)
    ELSE IF s[2] = "x"
    THEN Raise("UnicodeDecodeError", <<"truncated \\xXX escape">>)
    ELSE IF s[2] = BACKSLASH
    THEN unicode_escape_from(Tail(Tail(s)), out \o <<BACKSLASH>>)
    ELSE IF s[2] = "n"
    THEN unicode_escape_from(Tail(Tail(s)), out \o <<NEWLINE>>)
    ELSE IF s[2] = NEWLINE
    THEN unicode_escape_from(Tail(Tail(s)), out)
    ELSE \* not an escape: the backslash stays
         unicode_escape_from(Tail(s), out \o <<BACKSLASH>>)

unicode_escape(s) == unicode_escape_from(s, <<>>)

(***************************************************************************)
(* _run_function and _handle_exception                                     *)
(***************************************************************************)
WorkerInfo == "WorkerInfo(id=0, name=worker0)"

\* variant: the handler of line 265 names ValueError
IsException_ValueError(kind) == kind \in {"ValueError", "UnicodeDecodeError"}

\* the exception classes that derive from Exception (line 265)
IsException(kind) == kind \notin {"SystemExit", "KeyboardInterrupt"}

\* the exception classes that can be built from one textual argument
Constructible(kind) == kind # "UnicodeDecodeError"

RemoteException(msg, exception_type) ==
    Item("RemoteException", [msg |-> msg, exception_type |-> exception_type])

\* lines 267-270
except_str(e) ==
    <<"On ", WorkerInfo, ":", NEWLINE>> \o repr_exc(e) \o <<NEWLINE>> \o format_exc(e)

\* variant: no isinstance test, the argument is always treated as a PythonUDF
try_run_unchecked(python_udf) ==
    IF python_udf.cat # "PythonUDF"
    THEN [exc |-> Exc("AttributeError", <<"object has no attribute func">>),
          value |-> <<>>, invoked |-> FALSE, line |-> 264]
    ELSE IF python_udf.p.func.behaviour = "raise"
    THEN [exc |-> Exc(python_udf.p.func.kind, python_udf.p.func.msg),
          value |-> <<>>, invoked |-> TRUE, line |-> 264]
    ELSE [exc |-> Exc("", <<>>), value |-> Item("plain", python_udf.p.func.msg),
          invoked |-> TRUE, line |-> 0]

\* variant: an AttributeError instance is handed back as the result
try_run_passthrough(python_udf) ==
    IF python_udf.cat = "AttributeError"
    THEN [exc |-> Exc("", <<>>), value |-> python_udf, invoked |-> FALSE, line |-> 0]
    ELSE IF python_udf.cat # "PythonUDF"
    THEN [exc |-> Exc("AttributeError", <<"object has no attribute func">>),
          value |-> <<>>, invoked |-> FALSE, line |-> 264]
    ELSE IF python_udf.p.func.behaviour = "raise"
    THEN [exc |-> Exc(python_udf.p.func.kind, python_udf.p.func.msg),
          value |-> <<>>, invoked |-> TRUE, line |-> 264]
    ELSE [exc |-> Exc("", <<>>), value |-> Item("plain", python_udf.p.func.msg),
          invoked |-> TRUE, line |-> 0]

\* the try block, lines 262-264: the result, or the exception raised and
\* the line that raised it
try_run(python_udf) ==
    IF python_udf.cat = "AttributeError"
    THEN [exc |-> Exc("AttributeError", python_udf.p), value |-> <<>>, invoked |-> FALSE,
          line |-> 263]
    ELSE IF python_udf.cat # "PythonUDF"
    THEN [exc |-> Exc("AttributeError", <<"object has no attribute func">>),
          value |-> <<>>, invoked |-> FALSE, line |-> 264]
    ELSE IF python_udf.p.func.behaviour = "raise"
    THEN [exc |-> Exc(python_udf.p.func.kind, python_udf.p.func.msg),
          value |-> <<>>, invoked |-> TRUE, line |-> 264]
    ELSE [exc |-> Exc("", <<>>), value |-> Item("plain", python_udf.p.func.msg),
          invoked |-> TRUE, line |-> 0]

\* variant: the handler prints the description and lets the exception go on
run_function_reraise(python_udf) ==
    LET r == try_run(python_udf)
    IN  IF r.exc.kind = ""
        THEN [how |-> "returned", value |-> r.value, printed |-> <<>>,
              invoked |-> r.invoked, raised_at |-> r.line]
        ELSE IF IsException(r.exc.kind)
        THEN [how |-> "raised", value |-> r.exc,
              printed |-> <<except_str(r.exc)>>, invoked |-> r.invoked,
              raised_at |-> r.line]
        ELSE [how |-> "raised", value |-> r.exc, printed |-> <<>>,
              invoked |-> r.invoked, raised_at |-> r.line]

\* _run_function(python_udf): how it exits, with what, what it printed,
\* whether the function was invoked, and the line of the try block that
\* raised (0 when none did)
run_function(python_udf) ==
    LET r == try_run(python_udf)
    IN  IF r.exc.kind = ""
        THEN [how |-> "returned", value |-> r.value, printed |-> <<>>,
              invoked |-> r.invoked, raised_at |-> r.line]
        ELSE IF IsException(r.exc.kind)
        THEN [how |-> "returned",
              value |-> RemoteException(except_str(r.exc), r.exc.kind),
              printed |-> <<except_str(r.exc)>>, invoked |-> r.invoked,
              raised_at |-> r.line]
        ELSE [how |-> "raised", value |-> r.exc, printed |-> <<>>,
              invoked |-> r.invoked, raised_at |-> r.line]

\* what a function that falls off its end returns
None == Item("NoneType", "None")

\* variant: the function ends with return result
handle_exception_return_result(result) ==
    IF result.cat = "RemoteException"
    THEN LET text == unicode_escape(result.p.msg)
         IN  IF text.exc # ""
             THEN [how |-> "raised", value |-> Exc(text.exc, text.value)]
             ELSE IF Constructible(result.p.exception_type)
             THEN [how |-> "raised", value |-> Exc(result.p.exception_type, text.value)]
             ELSE [how |-> "raised",
                   value |-> Exc("TypeError", <<"function takes exactly 5 arguments">>)]
    ELSE [how |-> "returned", value |-> result]

\* _handle_exception(result): raises, or falls off the end and returns None
handle_exception(result) ==
    IF result.cat = "RemoteException"
    THEN LET text == unicode_escape(result.p.msg)
         IN  IF text.exc # ""
             THEN [how |-> "raised", value |-> Exc(text.exc, text.value)]
             ELSE IF Constructible(result.p.exception_type)
             THEN [how |-> "raised", value |-> Exc(result.p.exception_type, text.value)]
             ELSE [how |-> "raised",
                   value |-> Exc("TypeError", <<"function takes exactly 5 arguments">>)]
    ELSE [how |-> "returned", value |-> None]

(***************************************************************************)
(* Inputs                                                                  *)
(***************************************************************************)
\* a RemoteModule as its constructor leaves it
CanonicalModule ==
    << <<"training", Val("bool", TRUE)>>,
       <<"on", Val("str", "worker1")>>,
       <<"device", Val("str", "cpu")>>,
       <<"is_device_map_set", Val("bool", FALSE)>>,
       <<"is_scriptable", Val("bool", TRUE)>>,
       <<"generated_methods", Val("methods", <<"forward">>)>>,
       <<"module_rref", Val("rref", "r1")>>,
       <<"forward", Val("method", "forward")>> >>

\* the same attributes, device set before on
ReorderedModule ==
    << <<"training", Val("bool", TRUE)>>,
       <<"device", Val("str", "cpu")>>,
       <<"on", Val("str", "worker1")>>,
       <<"is_device_map_set", Val("bool", FALSE)>>,
       <<"is_scriptable", Val("bool", TRUE)>>,
       <<"generated_methods", Val("methods", <<"forward">>)>>,
       <<"module_rref", Val("rref", "r1")>>,
       <<"forward", Val("method", "forward")>> >>

\* one attribute in neither list
ExtendedModule == Append(CanonicalModule, <<"extra", Val("str", "e")>>)

\* two attributes in neither list, one set before module_rref, one last
TwiceExtendedModule ==
    << <<"training", Val("bool", TRUE)>>,
       <<"on", Val("str", "worker1")>>,
       <<"device", Val("str", "cpu")>>,
       <<"is_device_map_set", Val("bool", FALSE)>>,
       <<"is_scriptable", Val("bool", TRUE)>>,
       <<"tag", Val("str", "t")>>,
       <<"generated_methods", Val("methods", <<"forward">>)>>,
       <<"module_rref", Val("rref", "r1")>>,
       <<"forward", Val("method", "forward")>>,
       <<"extra", Val("str", "e")>> >>

RemoteModules == {CanonicalModule, ReorderedModule, ExtendedModule, TwiceExtendedModule}

\* values a handler encodes with a serialize() of its own
InnerObjects ==
    { <<Item("tensor", "B")>>,
      <<Item("tensor", "B"), Item("unpicklable", "lock")>> }

Nodes ==
    { Item("plain", "x"), Item("func", "f"),
      Item("tensor", "A"), Item("tensor", "C"),
      Item("rref", "r1"), Item("rref", BadRRef),
      Item("script", "m"), Item("rscript", "m"),
      Item("unpicklable", "lock") }
    \cup {Item("remote_module", d) : d \in RemoteModules}
    \cup {Item("nested", o) : o \in InnerObjects}

Objects == SeqsUpTo(Nodes, MaxLen)

\* payloads arriving from a peer
PeerTables == { <<>>, <<"A">>, <<"A", "C">> }

PeerTokens ==
    { Token("plain", "", "x"), Token("global", "", "f"), Token("global", "", "g"),
      Token("reduce", "tensor_receiver", 0), Token("reduce", "tensor_receiver", 1),
      Token("reduce", "tensor_receiver", 2),
      Token("reduce", "py_rref_receiver", Val("fork", "r1")),
      Token("reduce", "py_rref_receiver", Val("fork", BadRRef)),
      Token("reduce", "script_module_receiver", Val("blob", "m")),
      Token("reduce", "recursive_script_module_receiver", Val("blob", "m")),
      Token("reduce", "remote_module_receiver",
            <<Val("str", "worker1"), Val("str", "cpu"), Val("bool", FALSE),
              Val("bool", TRUE), Val("methods", <<"forward">>), Val("fork", "r1")>>),
      \* a RemoteModule whose generated_methods holds names, not functions
      Token("reduce", "remote_module_receiver",
            <<Val("str", "worker1"), Val("str", "cpu"), Val("bool", FALSE),
              Val("bool", TRUE), Val("strs", <<"forward">>), Val("fork", "r1")>>),
      Token("reduce", "nested_receiver",
            [binary_data |-> <<Token("reduce", "tensor_receiver", 0)>>,
             tensor_table |-> <<"B">>]),
      Token("reduce", "nested_receiver",
            [binary_data |-> <<Token("reduce", "tensor_receiver", 1)>>,
             tensor_table |-> <<"B">>]),
      Token("reduce", "nested_receiver",
            [binary_data |-> <<Token("global", "", "g")>>,
             tensor_table |-> <<>>]) }

PeerStreams == SeqsUpTo(PeerTokens, MaxStream)

(***************************************************************************)
(* The codec on one thread: encode a value, then decode the payload; or    *)
(* decode a payload received from a peer.                                  *)
(***************************************************************************)
NoOutcome == [stage |-> "none"]

NoProfile == [op |-> "none"]

Init ==
    /\ tls = [t \in Threads |-> [send_tables |-> Absent, recv_tables |-> Absent]]
    /\ stack = [t \in Threads |-> <<>>]
    /\ pc = [t \in Threads |-> "idle"]
    /\ rets = [t \in Threads |-> <<>>]
    /\ stderr = <<>>
    /\ udf = <<>>
    /\ outcome = NoOutcome
    /\ profile = NoProfile

Next ==
    \/ SerializeCall(MainThread, Objects)
    \/ Pickle(MainThread)
    \/ NestedSerialize(MainThread)
    \/ SerializeRaise(MainThread)
    \/ SerializeReturn(MainThread)
    \/ DeserializeCall(MainThread, PeerStreams, PeerTables)
    \/ DeserializeOwn(MainThread)
    \/ Unpickle(MainThread)
    \/ NestedDeserialize(MainThread)
    \/ DeserializeAttributeError(MainThread)
    \/ DeserializeRaise(MainThread)
    \/ DeserializeReturn(MainThread)

Spec == Init /\ [][Next]_vars

(***************************************************************************)
(* The executor: _run_function on a decoded argument, then                 *)
(* _handle_exception on what it returned.                                  *)
(***************************************************************************)
MaxMsg == 2     \* longest message of an exception a function raises

MsgChars == {"o", "n", "x", "é", BACKSLASH, NEWLINE}

Messages == SeqsUpTo(MsgChars, MaxMsg)

Kinds == {"ValueError", "RuntimeError", "UnicodeDecodeError", "SystemExit"}

MissingSymbols == {"g", "h"}

\* what a failed decode hands over
DecodeFailures ==
    { deserialize_failure(Raise("AttributeError", <<"Can't get attribute ", name>>))[1] :
        name \in MissingSymbols }

PythonUDF(func) == Item("PythonUDF", [func |-> func])

UdfInputs ==
    DecodeFailures
    \cup {PythonUDF([behaviour |-> "raise", kind |-> k, msg |-> m]) :
            k \in Kinds, m \in Messages}
    \cup {PythonUDF([behaviour |-> "return", kind |-> "", msg |-> "v"]),
          Item("plain", "x")}

RunFunction ==
    /\ outcome.stage = "none"
    /\ \E python_udf \in UdfInputs :
        /\ udf' = python_udf
        /\ outcome' = [stage |-> "ran", run |-> run_function(python_udf)]
        /\ stderr' = stderr \o run_function(python_udf).printed
    /\ UNCHANGED <<tls, stack, pc, rets, profile>>

HandleException ==
    /\ outcome.stage = "ran"
    /\ outcome.run.how = "returned"
    /\ outcome' = [stage |-> "handled", run |-> outcome.run,
                   handled |-> handle_exception(outcome.run.value)]
    /\ UNCHANGED <<tls, stack, pc, rets, stderr, udf, profile>>

NextExec == RunFunction \/ HandleException

SpecExec == Init /\ [][NextExec]_vars

(***************************************************************************)
(* Two threads, each encoding a value of its own                           *)
(***************************************************************************)
MaxThreadLen == 2     \* longest value a thread encodes when two threads run

ThreadBuffers(t) == IF t = MainThread THEN {"A", "C"} ELSE {"B", "D"}

ThreadObjects(t) ==
    SeqsUpTo({Item("tensor", b) : b \in ThreadBuffers(t)} \cup {Item("plain", "x")},
             MaxThreadLen)

NextThreads ==
    \E t \in Threads :
        \/ SerializeCall(t, ThreadObjects(t))
        \/ Pickle(t)
        \/ SerializeReturn(t)

SpecThreads == Init /\ [][NextThreads]_vars

(***************************************************************************)
(* One remote call, end to end: the callee decodes the request, runs it,   *)
(* encodes what _run_function returned; the caller decodes the response    *)
(* and hands it to _handle_exception.  Caller and callee are threads of    *)
(* different processes.                                                    *)
(***************************************************************************)
Caller == "t1"

Callee == "t2"

\* how the function f defined on the callee may behave when called
CalleeBehaviours ==
    { [behaviour |-> "return", kind |-> "", msg |-> "v"],
      [behaviour |-> "raise", kind |-> "ValueError", msg |-> <<"o">>],
      [behaviour |-> "raise", kind |-> "SystemExit", msg |-> <<>>] }

\* the argument _run_function gets for a decoded request: the AttributeError
\* of a failed decode, a PythonUDF naming a function, or something else
DecodedRequests(ret) ==
    IF Len(ret) = 1 /\ ret[1].cat = "AttributeError" THEN {ret[1]}
    ELSE IF ret # <<>> /\ ret[1].cat = "func"
    THEN {PythonUDF(b) : b \in CalleeBehaviours}
    ELSE {Item("plain", "x")}

ReceiveRequest == DeserializeCall(Callee, PeerStreams, PeerTables)

Execute ==
    /\ pc[Callee] = "done"
    /\ outcome.stage = "none"
    /\ \E python_udf \in DecodedRequests(Last(rets[Callee]).value) :
        /\ udf' = python_udf
        /\ outcome' = [stage |-> "ran", run |-> run_function(python_udf)]
        /\ stderr' = stderr \o run_function(python_udf).printed
    /\ pc' = [pc EXCEPT ![Callee] = "ran"]
    /\ UNCHANGED <<tls, stack, rets, profile>>

EncodeResult ==
    /\ pc[Callee] = "ran"
    /\ outcome.run.how = "returned"
    /\ serialize_enter(Callee, <<outcome.run.value>>)
    /\ pc' = [pc EXCEPT ![Callee] = "serialize"]
    /\ UNCHANGED <<rets, stderr, udf, outcome, profile>>

ReceiveResponse ==
    /\ pc[Callee] = "serialized"
    /\ pc[Caller] = "idle"
    /\ deserialize_enter(Caller, Last(rets[Callee]).value.binary_data,
                                 Last(rets[Callee]).value.tensor_table)
    /\ pc' = [pc EXCEPT ![Caller] = "deserialize"]
    /\ UNCHANGED <<rets, stderr, udf, outcome, profile>>

Resolve ==
    /\ pc[Caller] = "done"
    /\ outcome.stage = "ran"
    /\ outcome' = [stage |-> "handled", run |-> outcome.run,
                   handled |-> handle_exception(Last(rets[Caller]).value[1])]
    /\ pc' = [pc EXCEPT ![Caller] = "resolved"]
    /\ UNCHANGED <<tls, stack, rets, stderr, udf, profile>>

NextPipeline ==
    \/ ReceiveRequest
    \/ \E t \in {Caller, Callee} :
            \/ Unpickle(t)
            \/ NestedDeserialize(t)
            \/ DeserializeAttributeError(t)
            \/ DeserializeRaise(t)
            \/ DeserializeReturn(t)
    \/ Execute
    \/ EncodeResult
    \/ Pickle(Callee)
    \/ SerializeReturn(Callee)
    \/ ReceiveResponse
    \/ Resolve

\* every step of the call is synchronous code that runs to its end
SpecPipeline == Init /\ [][NextPipeline]_vars /\ WF_vars(NextPipeline)

(***************************************************************************)
(* Profiling keys: RPCExecMode, _build_rpc_profiling_key and               *)
(* _start_record_function.  A key is the sequence of the pieces that       *)
(* str.format puts one after the other.                                    *)
(***************************************************************************)
RPCExecModes == {"SYNC", "ASYNC", "ASYNC_JIT", "REMOTE"}

\* variant: ASYNC_JIT shares the value of ASYNC
RPCExecMode_value_jit_as_async(exec_type) ==
    CASE exec_type = "SYNC"      -> "sync"
      [] exec_type = "ASYNC"     -> "async"
      [] exec_type = "ASYNC_JIT" -> "async"
      [] exec_type = "REMOTE"    -> "remote"

\* exec_type.value, lines 23-27
RPCExecMode_value(exec_type) ==
    CASE exec_type = "SYNC"      -> "sync"
      [] exec_type = "ASYNC"     -> "async"
      [] exec_type = "ASYNC_JIT" -> "async_jit"
      [] exec_type = "REMOTE"    -> "remote"

\* str(x) and format(x, "") of a str or an int (v holds the decimal text)
py_str(x) == CASE x.ty = "str" -> x.v [] x.ty = "int" -> x.v

py_format(x) == CASE x.ty = "str" -> x.v [] x.ty = "int" -> x.v

\* the parts of a format string: literal text, or a replacement field;
\* field 0 is the automatic field {}
Lit(text) == [lit |-> TRUE, text |-> text, field |-> 0]

Field(name) == [lit |-> FALSE, text |-> "", field |-> name]

\* the position {} number i stands for: fields are counted from the left
AutoIndex(template, i) == Cardinality({j \in 1..i : ~template[j].lit})

\* template.format(*args): automatic fields
format_positional(template, args) ==
    [i \in 1..Len(template) |->
        IF template[i].lit THEN template[i].text
        ELSE py_format(args[AutoIndex(template, i)])]

\* template.format(**kwargs): named fields
format_named(template, kwargs) ==
    [i \in 1..Len(template) |->
        IF template[i].lit THEN template[i].text
        ELSE py_format(kwargs[template[i].field])]

\* variant: the two worker names are passed the other way round
build_rpc_profiling_key_swapped(exec_type, func_name, current_worker_name, dst_worker_name) ==
    format_named(
        <<Lit("rpc_"), Field("rpc_type"), Lit("#"), Field("func_name"), Lit("("),
          Field("current_worker"), Lit(" -> "), Field("dst_worker"), Lit(")")>>,
        [rpc_type       |-> Val("str", RPCExecMode_value(exec_type)),
         func_name      |-> func_name,
         current_worker |-> dst_worker_name,
         dst_worker     |-> current_worker_name])

\* lines 297-303
build_rpc_profiling_key(exec_type, func_name, current_worker_name, dst_worker_name) ==
    format_named(
        <<Lit("rpc_"), Field("rpc_type"), Lit("#"), Field("func_name"), Lit("("),
          Field("current_worker"), Lit(" -> "), Field("dst_worker"), Lit(")")>>,
        [rpc_type       |-> Val("str", RPCExecMode_value(exec_type)),
         func_name      |-> func_name,
         current_worker |-> current_worker_name,
         dst_worker     |-> dst_worker_name])

\* lines 322-328: the assertion, then the key handed to _run_before_callbacks
start_record_function(profiler_enabled, exec_type, func_name, current_worker_name, dest_worker_name) ==
    IF ~profiler_enabled
    THEN [how |-> "raised", exc |-> "AssertionError", key |-> <<>>]
    ELSE [how |-> "returned", exc |-> "",
          key |-> format_positional(
                    <<Lit("rpc_"), Field(0), Lit("#"), Field(0), Lit("("),
                      Field(0), Lit(" -> "), Field(0), Lit(")")>>,
                    <<Val("str", RPCExecMode_value(exec_type)),
                      Val("str", py_str(func_name)),
                      current_worker_name, dest_worker_name>>)]

FuncNames == {Val("str", "foo"), Val("str", "bar"), Val("str", "a#b(c -> d)"), Val("int", "7")}

WorkerNames == {Val("str", "workerA"), Val("str", "workerB"), Val("str", "worker0")}

BuildRpcProfilingKey ==
    /\ \E exec_type \in RPCExecModes, func_name \in FuncNames,
          current_worker_name \in WorkerNames, dst_worker_name \in WorkerNames :
          profile' = [op |-> "_build_rpc_profiling_key",
                      exec_type |-> exec_type, func_name |-> func_name,
                      current_worker_name |-> current_worker_name,
                      dst_worker_name |-> dst_worker_name,
                      how |-> "returned",
                      key |-> build_rpc_profiling_key(exec_type, func_name,
                                  current_worker_name, dst_worker_name)]
    /\ UNCHANGED <<tls, stack, pc, rets, stderr, udf, outcome>>

StartRecordFunction ==
    /\ \E profiler_enabled \in BOOLEAN, exec_type \in RPCExecModes, func_name \in FuncNames,
          current_worker_name \in WorkerNames, dest_worker_name \in WorkerNames :
          LET r == start_record_function(profiler_enabled, exec_type, func_name,
                                         current_worker_name, dest_worker_name)
          IN  profile' = [op |-> "_start_record_function",
                          exec_type |-> exec_type, func_name |-> func_name,
                          current_worker_name |-> current_worker_name,
                          dst_worker_name |-> dest_worker_name,
                          how |-> r.how,
                          key |-> r.key]
    /\ UNCHANGED <<tls, stack, pc, rets, stderr, udf, outcome>>

NextProfile == BuildRpcProfilingKey \/ StartRecordFunction

SpecProfile == Init /\ [][NextProfile]_vars

(***************************************************************************)
(* One thread making several top-level calls one after the other; a call   *)
(* that raised is followed by the next call like any other.                *)
(***************************************************************************)
MaxCalls == 3     \* top-level calls a thread makes one after the other

HistoryObjects ==
    { <<Item("tensor", "A")>>,
      <<Item("tensor", "C"), Item("tensor", "A")>>,
      <<Item("tensor", "A"), Item("unpicklable", "lock")>>,
      <<Item("tensor", "A"), Item("nested", <<Item("tensor", "B")>>), Item("tensor", "C")>>,
      <<Item("tensor", "A"),
        Item("nested", <<Item("tensor", "B"), Item("unpicklable", "lock")>>)>> }

HistoryPayloads ==
    { [binary_data |-> <<Token("reduce", "tensor_receiver", 0)>>, tensor_table |-> <<>>],
      [binary_data |-> <<Token("reduce", "tensor_receiver", 0)>>, tensor_table |-> <<"A">>],
      [binary_data |-> <<Token("reduce", "tensor_receiver", 1),
                         Token("reduce", "tensor_receiver", 0)>>,
       tensor_table |-> <<"A", "C">>],
      [binary_data |-> <<Token("global", "", "g")>>, tensor_table |-> <<"A">>],
      [binary_data |-> <<Token("reduce", "nested_receiver",
                            [binary_data |-> <<Token("reduce", "tensor_receiver", 0)>>,
                             tensor_table |-> <<"B">>]),
                         Token("reduce", "tensor_receiver", 0)>>,
       tensor_table |-> <<"A">>],
      [binary_data |-> <<Token("reduce", "nested_receiver",
                            [binary_data |-> <<Token("reduce", "tensor_receiver", 1)>>,
                             tensor_table |-> <<"B">>])>>,
       tensor_table |-> <<"A">>] }

\* the top-level calls of thread t that have exited, as positions in rets[t]
TopLevel(t) == {i \in 1..Len(rets[t]) : rets[t][i].depth = 1}

\* the caller of the last call, having got its result or caught its fault, goes on
NextCall(t) ==
    /\ pc[t] \in {"serialized", "done", "raised"}
    /\ Cardinality(TopLevel(t)) < MaxCalls
    /\ pc' = [pc EXCEPT ![t] = "idle"]
    /\ UNCHANGED <<tls, stack, rets, stderr, udf, outcome, profile>>

DeserializePayload(t, payloads) ==
    /\ pc[t] = "idle"
    /\ \E payload \in payloads :
            deserialize_enter(t, payload.binary_data, payload.tensor_table)
    /\ pc' = [pc EXCEPT ![t] = "deserialize"]
    /\ UNCHANGED <<rets, stderr, udf, outcome, profile>>

NextHistory ==
    \/ SerializeCall(MainThread, HistoryObjects)
    \/ Pickle(MainThread)
    \/ NestedSerialize(MainThread)
    \/ SerializeRaise(MainThread)
    \/ SerializeReturn(MainThread)
    \/ DeserializePayload(MainThread, HistoryPayloads)
    \/ Unpickle(MainThread)
    \/ NestedDeserialize(MainThread)
    \/ DeserializeAttributeError(MainThread)
    \/ DeserializeRaise(MainThread)
    \/ DeserializeReturn(MainThread)
    \/ NextCall(MainThread)

SpecHistory == Init /\ [][NextHistory]_vars

(***************************************************************************)
(* Vocabulary of the properties                                            *)
(***************************************************************************)
IsTensor(node) == node.cat = "tensor"

IsTensorToken(token) == token.op = "reduce" /\ token.recv = "tensor_receiver"

\* the buffers of the tensors that are nodes of obj itself, in encounter order
OwnBuffers(obj) ==
    LET tensors == SelectSeq(obj, IsTensor)
    IN  [i \in 1..Len(tensors) |-> tensors[i].p]

\* the indices carried by the tensor placeholders of a stream, in order
TensorIndices(binary_data) ==
    LET tokens == SelectSeq(binary_data, IsTensorToken)
    IN  [i \in 1..Len(tokens) |-> tokens[i].arg]

\* the nodes a live serialize() has finished with
Processed(frame) == SubSeq(frame.input, 1, Len(frame.input) - Len(frame.todo))

\* the calls of op that have exited on thread t, as positions in rets[t]
Exited(t, op) == {i \in 1..Len(rets[t]) : rets[t][i].op = op}

Returned(t, op) == {i \in Exited(t, op) : rets[t][i].how = "returned"}

(***************************************************************************)
(* C1  Nesting safety: while a handler of an outer serialize() runs an     *)
(* inner serialize() on the same thread, the list the outer call has       *)
(* accumulated is held aside untouched and the inner call fills a list of  *)
(* its own; once the inner call has returned the outer call goes on        *)
(* appending to its own list, so each call returns the buffers of its own  *)
(* value only: [A, handler encoding B, C] returns [A, C], the inner call   *)
(* returns [B].                                                            *)
(***************************************************************************)
C1_NestingSafety ==
    \A t \in Threads :
        /\ \A i \in 1..Len(stack[t]) :
              stack[t][i].op = "serialize" =>
                /\ i < Len(stack[t]) =>
                      stack[t][i + 1].old_send_tables
                          = Present(OwnBuffers(Processed(stack[t][i])))
                /\ i = Len(stack[t]) =>
                      tls[t].send_tables = Present(OwnBuffers(Processed(stack[t][i])))
        /\ \A i \in Returned(t, "serialize") :
              rets[t][i].value.tensor_table = OwnBuffers(rets[t][i].input)

ExampleOuter ==
    <<Item("tensor", "A"), Item("nested", <<Item("tensor", "B")>>), Item("tensor", "C")>>

C1_Witness ==
    /\ \E i \in Returned(MainThread, "serialize") :
          /\ rets[MainThread][i].depth = 1
          /\ rets[MainThread][i].input = ExampleOuter
          /\ rets[MainThread][i].value.tensor_table = <<"A", "C">>
    /\ \E i \in Returned(MainThread, "serialize") :
          /\ rets[MainThread][i].depth = 2
          /\ rets[MainThread][i].value.tensor_table = <<"B">>

(***************************************************************************)
(* C2  Encode restores thread state on every exit path: whenever a         *)
(* serialize() call has exited, by returning or by raising, the            *)
(* send_tables slot right after the exit is what it was right before the   *)
(* call.                                                                   *)
(***************************************************************************)
C2_EncodeRestoresOnEveryExit ==
    \A t \in Threads : \A i \in Exited(t, "serialize") :
        rets[t][i].post = rets[t][i].pre

(***************************************************************************)
(* C3  Decode restores thread state on every exit path: whenever a         *)
(* deserialize() call has exited, by returning a value, by returning an    *)
(* AttributeError value or by raising, the recv_tables slot right after    *)
(* the exit is what it was right before the call.                          *)
(***************************************************************************)
C3_DecodeRestoresOnEveryExit ==
    \A t \in Threads : \A i \in Exited(t, "deserialize") :
        rets[t][i].post = rets[t][i].pre

(***************************************************************************)
(* C4  Thread isolation: with two threads encoding at once, at every       *)
(* moment the list a thread is filling holds exactly the buffers of the    *)
(* nodes its own call has visited, in visiting order, and the placeholders *)
(* it has written count 0, 1, 2, ... into that list; the list a call       *)
(* returns is that of its own value, with no buffer of the other thread.   *)
(***************************************************************************)
Counting(indices) == \A k \in 1..Len(indices) : indices[k] = k - 1

C4_ThreadIsolation ==
    \A t \in Threads :
        /\ stack[t] # <<>> =>
              /\ tls[t].send_tables = Present(OwnBuffers(Processed(Top(t))))
              /\ Counting(TensorIndices(Top(t).f))
              /\ Len(TensorIndices(Top(t).f)) = Len(tls[t].send_tables.tbl)
        /\ \A i \in Returned(t, "serialize") :
              /\ rets[t][i].value.tensor_table = OwnBuffers(rets[t][i].input)
              /\ Range(rets[t][i].value.tensor_table) \subseteq ThreadBuffers(t)
              /\ Counting(TensorIndices(rets[t][i].value.binary_data))

\* both threads have returned after running interleaved, each with two buffers
C4_Witness ==
    /\ \A t \in Threads :
          /\ pc[t] = "serialized"
          /\ Len(rets[t][1].value.tensor_table) = 2
    /\ rets["t1"][1].value.tensor_table # rets["t2"][1].value.tensor_table

(***************************************************************************)
(* C5  Buffer indexing: a serialize() call that returns hands back a list  *)
(* with one entry per tensor node of its value; the k-th tensor node met   *)
(* is entry k of the list, and the placeholders in the byte stream carry   *)
(* the indices 0, 1, ..., N-1 in that order.                               *)
(***************************************************************************)
C5_BufferIndexing ==
    \A i \in Returned(MainThread, "serialize") :
        LET r       == rets[MainThread][i]
            tensors == SelectSeq(r.input, IsTensor)
            indices == TensorIndices(r.value.binary_data)
        IN  /\ Len(r.value.tensor_table) = Len(tensors)
            /\ Len(indices) = Len(tensors)
            /\ \A k \in 1..Len(tensors) :
                  /\ indices[k] = k - 1
                  /\ r.value.tensor_table[indices[k] + 1] = tensors[k].p

C5_Witness ==
    \E i \in Returned(MainThread, "serialize") :
        /\ rets[MainThread][i].value.tensor_table = <<"C", "A", "C">>
        /\ TensorIndices(rets[MainThread][i].value.binary_data) = <<0, 1, 2>>

(***************************************************************************)
(* C6  Round-trip identity: when serialize() of a value made of plain data *)
(* and special-type instances has returned and its payload is handed to    *)
(* deserialize(), the decode returns a value equal to the original.  Two   *)
(* RemoteModules are equal when they agree on the pickled attributes and   *)
(* on module_rref.                                                         *)
(***************************************************************************)
RoundTripCats == {"plain", "tensor", "rref", "script", "rscript", "remote_module"}

PickledView(dict) ==
    {dict[i] : i \in {j \in 1..Len(dict) :
        dict[j][1] \in REMOTE_MODULE_PICKLED_ATTRIBUTES \cup {"module_rref"}}}

SameNode(a, b) ==
    /\ a.cat = b.cat
    /\ IF a.cat = "remote_module" THEN PickledView(a.p) = PickledView(b.p)
       ELSE a.p = b.p

SameValue(a, b) ==
    /\ Len(a) = Len(b)
    /\ \A i \in 1..Len(a) : SameNode(a[i], b[i])

\* the thread has decoded the payload of its own serialize()
DecodedOwn(t) ==
    /\ pc[t] \in {"done", "raised"}
    /\ \E i \in Returned(t, "serialize") : rets[t][i].depth = 1

EncodedValue(t) ==
    rets[t][CHOOSE i \in Returned(t, "serialize") : rets[t][i].depth = 1].input

C6_RoundTrip ==
    \A t \in Threads :
        (DecodedOwn(t) /\ \A k \in 1..Len(EncodedValue(t)) :
                              EncodedValue(t)[k].cat \in RoundTripCats)
        => /\ Last(rets[t]).op = "deserialize"
           /\ Last(rets[t]).how = "returned"
           /\ SameValue(Last(rets[t]).value, EncodedValue(t))

(***************************************************************************)
(* C7  Missing-symbol decode: when the traversal of a deserialize() call   *)
(* comes to a reference to a function the receiving side does not define,  *)
(* the call does not raise: it returns an AttributeError instance whose    *)
(* text is the message of the failed lookup followed by the hint, as its   *)
(* ordinary return value.                                                  *)
(***************************************************************************)
Unresolvable(token) == token.op = "global" /\ token.arg \notin ReceiverSymbols

\* token i is the first one whose load fails, and it is an unresolvable symbol
MissingSymbolAt(binary_data, tensor_table, i) ==
    /\ Unresolvable(binary_data[i])
    /\ \A j \in 1..(i - 1) :
          /\ binary_data[j].recv # "nested_receiver"
          /\ load_token(Present(tensor_table), binary_data[j]).exc = ""

RanOn(cat) == outcome.stage # "none" /\ udf.cat = cat

C8_PassThroughUnchanged ==
    RanOn("AttributeError")
    => /\ outcome.run.how = "returned"
       /\ ~outcome.run.invoked
       /\ outcome.run.value.cat = udf.cat
       /\ outcome.run.value.p = udf.p

(***************************************************************************)
(* C8, amended: handed the AttributeError instance of a failed decode,     *)
(* _run_function invokes nothing and returns a new RemoteException whose   *)
(* exception_type is AttributeError and whose msg holds the text of the    *)
(* decode failure after the worker identity; that msg is printed to        *)
(* sys.stderr.                                                             *)
(***************************************************************************)
C8_DecodeFailureRewrapped ==
    RanOn("AttributeError")
    => /\ outcome.run.how = "returned"
       /\ ~outcome.run.invoked
       /\ outcome.run.value.cat = "RemoteException"
       /\ outcome.run.value.p.exception_type = "AttributeError"
       /\ Contains(outcome.run.value.p.msg, <<"On ", WorkerInfo>>)
       /\ Contains(outcome.run.value.p.msg, udf.p)
       /\ stderr = <<outcome.run.value.p.msg>>

C8_Witness ==
    /\ outcome.stage = "ran"
    /\ udf \in DecodeFailures
    /\ outcome.run.value.cat = "RemoteException"

(***************************************************************************)
(* C9  Executor never lets a fault escape, as claimed: whatever the        *)
(* invoked function raises, _run_function returns a RemoteException        *)
(* carrying the description and the class of what was raised, and has      *)
(* printed the description.                                                *)
(***************************************************************************)
Raising == RanOn("PythonUDF") /\ udf.p.func.behaviour = "raise"

Raised == Exc(udf.p.func.kind, udf.p.func.msg)

Intercepted ==
    /\ outcome.run.how = "returned"
    /\ outcome.run.invoked
    /\ outcome.run.value.cat = "RemoteException"
    /\ outcome.run.value.p.exception_type = udf.p.func.kind
    /\ outcome.run.value.p.msg
          = <<"On ", WorkerInfo, ":", NEWLINE>> \o repr_exc(Raised) \o <<NEWLINE>>
                \o format_exc(Raised)
    /\ stderr = <<outcome.run.value.p.msg>>

ExceptionClasses == {"ValueError", "RuntimeError", "UnicodeDecodeError", "AttributeError"}

C10_WrapUnwrapPreserves ==
    (Raising /\ udf.p.func.kind \in ExceptionClasses /\ Constructible(udf.p.func.kind))
    => /\ outcome.run.how = "returned"
       /\ outcome.run.value.p.exception_type = udf.p.func.kind
       /\ Contains(outcome.run.value.p.msg, udf.p.func.msg)
       /\ outcome.stage = "handled" =>
             /\ outcome.handled.how = "raised"
             /\ outcome.handled.value.kind = udf.p.func.kind
             /\ Contains(outcome.handled.value.msg, udf.p.func.msg)


(***************************************************************************)
(* C11  Propagator contract, as claimed: _handle_exception raises exactly  *)
(* when its argument is a RemoteException; for every other argument it     *)
(* returns that argument unchanged as its result.                          *)
(***************************************************************************)
Handled == outcome.stage = "handled"

C11_ReturnsArgumentUnchanged ==
    Handled =>
        IF outcome.run.value.cat = "RemoteException"
        THEN outcome.handled.how = "raised"
        ELSE /\ outcome.handled.how = "returned"
             /\ outcome.handled.value = outcome.run.value

(***************************************************************************)
(* C11, amended: _handle_exception raises exactly when its argument is a   *)
(* RemoteException; for every other argument it returns None.              *)
(***************************************************************************)
C11_RaisesIffRemoteException ==
    Handled =>
        IF outcome.run.value.cat = "RemoteException"
        THEN outcome.handled.how = "raised"
        ELSE /\ outcome.handled.how = "returned"
             /\ outcome.handled.value = None

\* the result of a function that returned was handed over
C11_Witness ==
    /\ Handled
    /\ udf.cat = "PythonUDF"
    /\ udf.p.func.behaviour = "return"
    /\ outcome.run.value = Item("plain", "v")
    /\ outcome.handled.how = "returned"


(***************************************************************************)
(* C12  End-to-end remote decode failure: when the request the callee      *)
(* decodes references a symbol the callee cannot resolve, no fault leaves  *)
(* deserialize or _run_function on the callee, no function is invoked      *)
(* there, nothing raises on the way back, and the call eventually ends     *)
(* with _handle_exception on the caller raising, as the one fault of the   *)
(* whole call, an AttributeError.                                          *)
(***************************************************************************)
\* the request of the call names a symbol the callee lacks
MissingSymbolRequest ==
    \/ /\ stack[Callee] # <<>>
       /\ stack[Callee][1].op = "deserialize"
       /\ \E k \in 1..Len(stack[Callee][1].input.binary_data) :
             MissingSymbolAt(stack[Callee][1].input.binary_data,
                             stack[Callee][1].input.tensor_table, k)
    \/ \E i \in Exited(Callee, "deserialize") :
          /\ rets[Callee][i].depth = 1
          /\ \E k \in 1..Len(rets[Callee][i].input.binary_data) :
                MissingSymbolAt(rets[Callee][i].input.binary_data,
                                rets[Callee][i].input.tensor_table, k)

\* the faults that have left an operation so far
EscapedFaults ==
    Cardinality({<<t, i>> \in Threads \X (1..4) :
                    i <= Len(rets[t]) /\ rets[t][i].depth = 1 /\ rets[t][i].how = "raised"})
    + (IF outcome.stage # "none" /\ outcome.run.how = "raised" THEN 1 ELSE 0)
    + (IF outcome.stage = "handled" /\ outcome.handled.how = "raised" THEN 1 ELSE 0)

RaisedOnCaller ==
    /\ pc[Caller] = "resolved"
    /\ outcome.stage = "handled"
    /\ outcome.handled.how = "raised"
    /\ outcome.handled.value.kind = "AttributeError"
    /\ EscapedFaults = 1

C12_NothingEscapesBefore ==
    MissingSymbolRequest =>
        /\ pc[Callee] # "raised" /\ pc[Caller] # "raised"
        /\ outcome.stage # "none" =>
              /\ udf.cat = "AttributeError"
              /\ outcome.run.how = "returned"
              /\ ~outcome.run.invoked
        /\ IF outcome.stage = "handled" THEN RaisedOnCaller ELSE EscapedFaults = 0

IsFailureValue(v) == v.cat \in {"AttributeError", "RemoteException"}

\* no deserialize() has let an AttributeError out as a raised fault
NoDecodeFailureRaised ==
    \A t \in Threads : \A i \in Exited(t, "deserialize") :
        rets[t][i].how = "raised" => rets[t][i].value # "AttributeError"

C13_NeverRaisedInside ==
    /\ NoDecodeFailureRaised
    /\ (outcome.stage # "none" /\ IsFailureValue(udf)) => outcome.run.raised_at = 0

(***************************************************************************)
(* C13, amended: a failure value never leaves deserialize or               *)
(* _run_function as a raised fault.  Handed the AttributeError of a failed *)
(* decode, _run_function raises it at line 263 inside its own try block,   *)
(* catches it in the same call and returns a RemoteException; the only     *)
(* operation a failure value leaves as a raised fault is                   *)
(* _handle_exception, which raises exactly when the decoded response is a  *)
(* RemoteException.                                                        *)
(***************************************************************************)
C13_NeverLeavesAsRaised ==
    /\ NoDecodeFailureRaised
    /\ (outcome.stage # "none" /\ IsFailureValue(udf)) =>
          /\ outcome.run.raised_at = 263
          /\ outcome.run.how = "returned"
          /\ outcome.run.value.cat = "RemoteException"
    /\ (outcome.stage # "none" /\ outcome.run.how = "raised") =>
          /\ outcome.run.invoked
          /\ outcome.run.raised_at = 264
    /\ outcome.stage = "handled" =>
          (outcome.handled.how = "raised"
              <=> IsFailureValue(Last(rets[Caller]).value[1]))

C13_Witness ==
    /\ pc[Callee] = "ran"
    /\ IsFailureValue(udf)
    /\ outcome.run.raised_at = 263
    /\ outcome.run.how = "returned"


(***************************************************************************)
(* C14  Buffer fetch bounds: in a deserialize() called with a table of n   *)
(* buffers, a placeholder of index i < n decodes to entry i of that table  *)
(* (of the table of the call that reads it, also around nested calls);     *)
(* when the first token that fails is a placeholder of index i >= n, the   *)
(* call raises IndexError: it returns neither a value nor an               *)
(* AttributeError instance.                                                *)
(***************************************************************************)
IsFailure(ret) == Len(ret) = 1 /\ ret[1].cat = "AttributeError"

\* the first k decoded nodes are what the table holds at the placeholders' indices
FetchedFromOwnTable(binary_data, tensor_table, ret, k) ==
    \A j \in 1..k :
        IsTensorToken(binary_data[j]) =>
            /\ binary_data[j].arg < Len(tensor_table)
            /\ ret[j] = Item("tensor", tensor_table[binary_data[j].arg + 1])

\* token k is the first one whose load fails, and it is a placeholder past the table
OutOfRangeAt(binary_data, tensor_table, k) ==
    /\ IsTensorToken(binary_data[k])
    /\ binary_data[k].arg >= Len(tensor_table)
    /\ \A j \in 1..(k - 1) :
          /\ binary_data[j].recv # "nested_receiver"
          /\ load_token(Present(tensor_table), binary_data[j]).exc = ""

C14_BufferFetchBounds ==
    \A t \in Threads :
        /\ \A d \in 1..Len(stack[t]) :
              stack[t][d].op = "deserialize" =>
                  FetchedFromOwnTable(stack[t][d].input.binary_data,
                                      stack[t][d].input.tensor_table,
                                      stack[t][d].ret,
                                      Len(stack[t][d].input.binary_data) - Len(stack[t][d].todo))
        /\ \A i \in Exited(t, "deserialize") :
              LET r == rets[t][i]
              IN  /\ (r.how = "returned" /\ ~IsFailure(r.value)) =>
                        /\ Len(r.value) = Len(r.input.binary_data)
                        /\ FetchedFromOwnTable(r.input.binary_data, r.input.tensor_table,
                                               r.value, Len(r.value))
                  /\ \A k \in 1..Len(r.input.binary_data) :
                        OutOfRangeAt(r.input.binary_data, r.input.tensor_table, k) =>
                            /\ r.how = "raised"
                            /\ r.value = "IndexError"

\* index 0 was fetched from a table of one buffer, then index 1 was asked for
C14_Witness ==
    \E i \in Exited(MainThread, "deserialize") :
        LET r == rets[MainThread][i]
        IN  /\ r.input.tensor_table = <<"A">>
            /\ TensorIndices(r.input.binary_data) = <<0, 1>>
            /\ OutOfRangeAt(r.input.binary_data, r.input.tensor_table, 2)
            /\ r.how = "raised"
            /\ r.value = "IndexError"


(***************************************************************************)
(* C15  RemoteModule field fidelity: when a value made of RemoteModule     *)
(* instances (and plain data) has been encoded and its payload decoded,    *)
(* the decode returns, and in each rebuilt module every pickled attribute  *)
(* (on, device, is_device_map_set, is_scriptable, generated_methods) has   *)
(* the value the attribute of that name had in the original, whatever the  *)
(* order the original's attributes were set in, and module_rref is the     *)
(* RRef of the original.                                                   *)
(***************************************************************************)
HasAttr(dict, name) == \E i \in 1..Len(dict) : dict[i][1] = name

AttrOf(dict, name) == dict[CHOOSE i \in 1..Len(dict) : dict[i][1] = name][2]

SameAttrs(original, rebuilt) ==
    \A name \in REMOTE_MODULE_PICKLED_ATTRIBUTES \cup {"module_rref"} :
        HasAttr(original, name) =>
            /\ HasAttr(rebuilt, name)
            /\ AttrOf(rebuilt, name) = AttrOf(original, name)

C15_FieldFidelity ==
    \A t \in Threads :
        (DecodedOwn(t) /\ \A k \in 1..Len(EncodedValue(t)) :
                              EncodedValue(t)[k].cat \in {"plain", "remote_module"})
        => /\ Last(rets[t]).op = "deserialize"
           /\ Last(rets[t]).how = "returned"
           /\ Len(Last(rets[t]).value) = Len(EncodedValue(t))
           /\ \A k \in 1..Len(EncodedValue(t)) :
                 EncodedValue(t)[k].cat = "remote_module" =>
                     /\ Last(rets[t]).value[k].cat = "remote_module"
                     /\ SameAttrs(EncodedValue(t)[k].p, Last(rets[t]).value[k].p)


(***************************************************************************)
(* C16  Unknown-attribute diagnostic: the step in which serialize()        *)
(* encodes a RemoteModule prints to sys.stderr exactly one message for     *)
(* each attribute of the module that is neither pickled nor in the ignore  *)
(* list nor module_rref, in attribute order, each naming its attribute,    *)
(* and nothing else; the step always completes: the node is consumed and   *)
(* its token written.                                                      *)
(***************************************************************************)
IsUnknownAttr(pair) ==
    pair[1] \notin REMOTE_MODULE_PICKLED_ATTRIBUTES
                     \cup REMOTE_MODULE_ATTRIBUTES_IGNORE_FOR_PICKLING
                     \cup {"module_rref"}

UnknownAttrs(dict) == SelectSeq(dict, IsUnknownAttr)

\* thread t is about to encode a RemoteModule
AtRemoteModule(t) ==
    /\ stack[t] # <<>>
    /\ Top(t).op = "serialize"
    /\ Top(t).todo # <<>>
    /\ Head(Top(t).todo).cat = "remote_module"

C16_UnknownAttributeDiagnostic ==
    [][\A t \in Threads :
        (AtRemoteModule(t) /\ stack'[t] # stack[t]) =>
            LET unknown == UnknownAttrs(Head(Top(t).todo).p)
                printed == SubSeq(stderr', Len(stderr) + 1, Len(stderr'))
            IN  /\ Len(stack'[t]) = Len(stack[t])
                /\ Last(stack'[t]).todo = Tail(Top(t).todo)
                /\ Last(Last(stack'[t]).f).recv = "remote_module_receiver"
                /\ stderr' = stderr \o printed
                /\ Len(printed) = Len(unknown)
                /\ \A i \in 1..Len(unknown) : Contains(printed[i], <<unknown[i][1]>>)
     ]_vars

\* one module with two unknown attributes has been encoded
C16_Witness ==
    /\ stack[MainThread] # <<>>
    /\ Top(MainThread).op = "serialize"
    /\ Processed(Top(MainThread)) = <<Item("remote_module", TwiceExtendedModule)>>
    /\ Len(Top(MainThread).f) = 1
    /\ stderr = <<ignored_attr_message("tag"), ignored_attr_message("extra")>>


(***************************************************************************)
(* C17  Span key format: whatever calls came before, the key               *)
(* _build_rpc_profiling_key returns is "rpc_", the value of the mode, "#", *)
(* the function name, "(", the current worker, " -> ", the destination     *)
(* worker, ")", and the key _start_record_function hands to the profiler   *)
(* is the one _build_rpc_profiling_key returns for the same arguments.     *)
(***************************************************************************)
ExpectedKey ==
    <<"rpc_", RPCExecMode_value(profile.exec_type), "#", profile.func_name.v, "(",
      profile.current_worker_name.v, " -> ", profile.dst_worker_name.v, ")">>

KeyBuilt == profile.op # "none" /\ profile.how = "returned"

C17_SpanKeyFormat ==
    KeyBuilt =>
        /\ profile.key = ExpectedKey
        /\ profile.key = build_rpc_profiling_key(profile.exec_type, profile.func_name,
                              profile.current_worker_name, profile.dst_worker_name)
        /\ start_record_function(TRUE, profile.exec_type, profile.func_name,
                profile.current_worker_name, profile.dst_worker_name).key = profile.key

\* build("sync", "foo", "workerA", "workerB"), made by _start_record_function
C17_Witness ==
    /\ profile.op = "_start_record_function"
    /\ profile.how = "returned"
    /\ profile.key = <<"rpc_", "sync", "#", "foo", "(", "workerA", " -> ", "workerB", ")">>

(***************************************************************************)
(* C18  Span key mode enumeration, as claimed: the mode text of a key is   *)
(* sync for SYNC, async for ASYNC, async_compiled for ASYNC_JIT and remote *)
(* for REMOTE.                                                             *)
(***************************************************************************)
ModeTextOfKey == profile.key[2]

C18_ModeTextsAsClaimed ==
    KeyBuilt =>
        ModeTextOfKey = (CASE profile.exec_type = "SYNC"      -> "sync"
                           [] profile.exec_type = "ASYNC"     -> "async"
                           [] profile.exec_type = "ASYNC_JIT" -> "async_compiled"
                           [] profile.exec_type = "REMOTE"    -> "remote")

(***************************************************************************)
(* C18, amended: the mode text of a key is one of the four strings sync,   *)
(* async, async_jit, remote: sync for SYNC, async for ASYNC, async_jit for *)
(* ASYNC_JIT and remote for REMOTE.                                        *)
(***************************************************************************)
C18_ModeTexts ==
    KeyBuilt =>
        ModeTextOfKey = (CASE profile.exec_type = "SYNC"      -> "sync"
                           [] profile.exec_type = "ASYNC"     -> "async"
                           [] profile.exec_type = "ASYNC_JIT" -> "async_jit"
                           [] profile.exec_type = "REMOTE"    -> "remote")

C18_Witness ==
    /\ profile.op = "_build_rpc_profiling_key"
    /\ profile.exec_type = "ASYNC_JIT"
    /\ ModeTextOfKey = "async_jit"


(***************************************************************************)
(* C19  History independence: on one thread, whatever the earlier          *)
(* top-level calls did, those that raised included, a top-level            *)
(* serialize() that returns hands back the buffers of its own value only,  *)
(* with placeholders counting from 0, a top-level deserialize() that       *)
(* returns a value has fetched every buffer from the table it was given,   *)
(* and two top-level calls of the same operation on the same input exit    *)
(* the same way with the same result.                                      *)
(***************************************************************************)
C19_HistoryIndependence ==
    \A t \in Threads : \A i \in TopLevel(t) :
        LET r == rets[t][i]
        IN  /\ (r.op = "serialize" /\ r.how = "returned") =>
                  /\ r.value.tensor_table = OwnBuffers(r.input)
                  /\ Counting(TensorIndices(r.value.binary_data))
            /\ (r.op = "deserialize" /\ r.how = "returned" /\ ~IsFailure(r.value)) =>
                  FetchedFromOwnTable(r.input.binary_data, r.input.tensor_table,
                                      r.value, Len(r.value))
            /\ \A j \in TopLevel(t) :
                  (rets[t][j].op = r.op /\ rets[t][j].input = r.input) =>
                      /\ rets[t][j].how = r.how
                      /\ rets[t][j].value = r.value

\* a call that found the list of a call that had raised returned its own
\* buffers, and so did the same call made once more
C19_Witness ==
    \E i \in TopLevel(MainThread) :
        LET r == rets[MainThread][i]
        IN  /\ r.op = "serialize"
            /\ r.how = "returned"
            /\ r.pre = Present(<<"A">>)
            /\ r.value.tensor_table = <<"C", "A">>
            /\ \E j \in TopLevel(MainThread) :
                  /\ j > i
                  /\ rets[MainThread][j].op = "serialize"
                  /\ rets[MainThread][j].input = r.input
                  /\ rets[MainThread][j].how = "returned"


(***************************************************************************)
(* C20  Symbol-resolution failures are not confused with other decode      *)
(* faults: a deserialize() returns an AttributeError instance only when    *)
(* its stream references a symbol the receiving side does not define; when *)
(* the first token that fails is one whose special-type receiver raises    *)
(* (buffer fetch, RRef reconstruct, jit load, RemoteModule rebuild), the   *)
(* call raises that fault and does not return an AttributeError instance.  *)
(***************************************************************************)
\* token k is the first one whose load fails, and it is a call of a receiver
ReceiverFaultAt(binary_data, tensor_table, k) ==
    /\ binary_data[k].op = "reduce"
    /\ binary_data[k].recv # "nested_receiver"
    /\ load_token(Present(tensor_table), binary_data[k]).exc # ""
    /\ \A j \in 1..(k - 1) :
          /\ binary_data[j].recv # "nested_receiver"
          /\ load_token(Present(tensor_table), binary_data[j]).exc = ""

C20_OnlySymbolFailuresReturned ==
    \A t \in Threads : \A i \in Exited(t, "deserialize") :
        LET r == rets[t][i]
        IN  /\ (r.how = "returned" /\ IsFailure(r.value)) =>
                  \E k \in 1..Len(r.input.binary_data) : Unresolvable(r.input.binary_data[k])
            /\ \A k \in 1..Len(r.input.binary_data) :
                  ReceiverFaultAt(r.input.binary_data, r.input.tensor_table, k) =>
                      r.how = "raised"

====
